---------------------------- MODULE Spec2Model ----------------------------
(***************************************************************************)
(* MoveUI: the client-side session manager (contexts/AuthContext.tsx), the *)
(* route cache (contexts/AppContext.tsx), the retrying fetch helper of     *)
(* services/api.ts and the effect of components/RouteFinder.tsx that acts  *)
(* on the route cache, as one state machine over the browser's             *)
(* localStorage, the React state of the two providers and the requests in  *)
(* flight.  One action is one run of a handler between two suspension      *)
(* points, followed by the effects React runs after the render it caused.  *)
(***************************************************************************)
EXTENDS Integers, Sequences, FiniteSets, TLC

(***************************************************************************)
(* Bounds of the exploration.                                              *)
(***************************************************************************)
\* user-initiated operations (clicks, timer ticks, page reloads) per run
MaxOps == 2
\* live tracking: the watches one page registers, the positions the device
\* reports
MaxWatches == 2
MaxFixes == 2
\* the history panel is operated on its first ClickDepth rows
ClickDepth == 2

(***************************************************************************)
(* Program constants.                                                      *)
(***************************************************************************)
\* routeService.getUserRoutes(0, 50): size of the fetched page
PageSize == 50
\* prev.slice(0, 49): records kept behind a prepended one
KeepOnPrepend == 49
\* fetchWithRetry(url, options, maxRetries = 2)
maxRetries == 2
\* 2000 * (i + 1): backoff unit after a server error
ServerErrorBackoff == 2000
\* 3000 * (i + 1): backoff unit after a timeout
TimeoutBackoff == 3000

(***************************************************************************)
(* Values.                                                                 *)
(***************************************************************************)
\* null / a key that is not in localStorage
Absent == [kind |-> "absent"]
\* a stored string that JSON.parse rejects
Unparsable == [kind |-> "bad"]

\* a User object (types: id, isAuthenticated; name, email, ... carry no logic)
UserRec(id, auth) == [kind |-> "user", id |-> id, isAuthenticated |-> auth]

\* the account the auth backend knows
ServerUserId == 1
\* 'temp-' + Date.now(): guest ids are kept apart from account ids
GuestIdBase == 100

\* email addresses typed into the forms: they differ in the case of one letter
Emails == {"a@x.io", "A@x.io"}
\* the object signup() stores under 'temp_signup_data' (name and password
\* carry no logic)
SignupData(email) == [kind |-> "signup", email |-> email]

\* a route id string: an optional 'local_' prefix followed by digits
RouteId(prefix, num) == [prefix |-> prefix, num |-> num]
\* the id of a route object built by RouteFinder: undefined
NoId == RouteId("", -1)
\* deleteRoute not running; id: the argument of its last run (history)
DeleteIdle(id) == [pc |-> "idle", id |-> id]
\* Date.now() of earlier runs / of this run, as id numbers
SeedIdBase == 1000
ClockIdBase == 2000

\* a Route object: id, the four coordinates of from/to, isFavorite.
\* origin is a history tag: the kind of session the record was created in.
RouteRec(id, coords, fav, origin) ==
    [kind |-> "route", id |-> id, coords |-> coords, isFavorite |-> fav,
     origin |-> origin]

\* <<from.lat, from.lng, to.lat, to.lng>> pairs the user can search for: one
\* that the first stored record already has and one that no stored record has
SearchCoords == {<<1, 1, 2, 2>>, <<0, 0, 9, 9>>}

\* id.startsWith('local_')
StartsWithLocal(id) == id.prefix = "local_"
\* isNaN(parseInt(id)): only an id that begins with digits parses
ParsesAsInt(id) == id.prefix = ""

\* array.slice(0, n)
Slice(s, n) == SubSeq(s, 1, IF Len(s) < n THEN Len(s) ELSE n)

Ids(s) == {s[i].id : i \in 1..Len(s)}
HasId(s, id) == \E i \in 1..Len(s) : s[i].id = id
CountCoords(s, c) == Cardinality({i \in 1..Len(s) : s[i].coords = c})

(***************************************************************************)
(* Persisted stores left by earlier runs of the program.                   *)
(***************************************************************************)
\* the i-th newest record of an earlier run; record 1 lies on SearchCoords
SeedCoords(i) == <<i, i, i + 1, i + 1>>
\* a guest-scope list: ids are Date.now() strings, newest first
GuestSeed(n) ==
    [i \in 1..n |->
        RouteRec(RouteId("", SeedIdBase + (n - i)), SeedCoords(i), FALSE, "guest")]
\* an authenticated-scope list: server ids, newest first
AuthSeed(n) ==
    [i \in 1..n |->
        RouteRec(RouteId("", n + 1 - i), SeedCoords(i), FALSE, "auth")]

\* <<mapguide_local_routes, mapguide_user_routes>> at page load
SeedCaches ==
    { <<GuestSeed(0), AuthSeed(0)>>,
      <<GuestSeed(1), AuthSeed(1)>>,
      <<GuestSeed(PageSize), AuthSeed(PageSize)>> }

\* <<auth_token, mapguide_user, mapguide_user_temp, refresh_token,
\*   temp_signup_data>> at page load: nobody; a guest who started a signup; an
\* account (with the refresh token an earlier release stored); a damaged user
\* record with and without a token; a damaged guest record
SeedSessions ==
    { <<0, Absent, Absent, 0, Absent>>,
      <<0, Absent, UserRec(GuestIdBase, FALSE), 0, SignupData("a@x.io")>>,
      <<1, UserRec(ServerUserId, TRUE), Absent, 1, Absent>>,
      <<1, Unparsable, Absent, 0, Absent>>,
      <<0, Unparsable, UserRec(GuestIdBase, FALSE), 0, Unparsable>>,
      <<0, Absent, Unparsable, 0, Absent>> }

(***************************************************************************)
(* State.                                                                  *)
(***************************************************************************)
VARIABLES
    \* localStorage
    ls_auth_token,       \* 'auth_token': 0 when absent, else the token
    ls_user,             \* 'mapguide_user'
    ls_user_temp,        \* 'mapguide_user_temp'
    ls_user_routes,      \* 'mapguide_user_routes'
    ls_local_routes,     \* 'mapguide_local_routes'
    ls_current_route,    \* 'current_route'
    ls_refresh_token,    \* 'refresh_token': 0 when absent
    ls_signup_data,      \* 'temp_signup_data'
    \* AuthProvider state
    user, initialized, refreshInterval, loading,
    \* AppProvider state
    mounted, routes, currentRoute, routesLoaded,
    \* requests in flight: one record per async function
    loadCall, addCall, toggleCall, deleteCall,
    logoutCall, validateCall, signinCall, refreshCall,
    signupCall, otpCall, verifyCall,
    \* window.location.href = '/login' was assigned and the page is about to unload
    redirect,
    \* MapComponent state and the device's geolocation watches
    isLiveTracking, watchId, locationError, deviceWatches, geocoding,
    nextWatchId, fixes, delivered, erroredSince, trackOp,
    \* useGeolocation: the getCurrentLocation call and the hook's state
    geoCall, geoLoading, geoError,
    \* the route backend and the clock
    serverRoutes, serverNextId, clock,
    \* history
    lastOp, ops, deletedIds, toggled, added

storageVars == <<ls_auth_token, ls_user, ls_user_temp, ls_user_routes,
                 ls_local_routes, ls_current_route, ls_refresh_token,
                 ls_signup_data>>
authVars == <<user, initialized, refreshInterval, loading>>
appVars == <<mounted, routes, currentRoute, routesLoaded>>
callVars == <<loadCall, addCall, toggleCall, deleteCall,
              logoutCall, validateCall, signinCall, refreshCall>>
otpVars == <<signupCall, otpCall, verifyCall>>
trackVars == <<isLiveTracking, watchId, locationError, deviceWatches, geocoding,
               nextWatchId, fixes, delivered, erroredSince, trackOp>>
geoVars == <<geoCall, geoLoading, geoError>>
envVars == <<serverRoutes, serverNextId, clock>>
histVars == <<lastOp, ops, deletedIds, toggled, added>>
vars == <<storageVars, authVars, appVars, callVars, otpVars, redirect,
          trackVars, geoVars, envVars, histVars>>

Idle == [pc |-> "idle"]
\* loadRoutes not running; by: the caller of its last run (history)
LoadIdle(by) == [pc |-> "idle", by |-> by, cache |-> <<>>]
\* a fetchWithRetry call: attempt index i, requests sent, last backoff (ms),
\* and, once it has ended, the status and body it returned
NoBody == [accessToken |-> 0, user |-> 0]
FetchIdle == [pc |-> "idle", i |-> 0, sent |-> 0, waited |-> 0, status |-> 0,
              body |-> NoBody]
\* a signup(), sendOTP() or verifyOTP() call: its email argument, the requests
\* it has sent, the error it threw and, for an OK answer, its data.data
OtpIdle == [pc |-> "idle", email |-> "", sent |-> 0, error |-> "",
            body |-> NoBody]
\* getCurrentLocation not running.  lat, lng: the position the device gave;
\* primary, fallback: what the providers answered ("" when not asked);
\* result: what the call returned (NoResult before it returns)
NoResult == [kind |-> "none"]
GeoIdle == [pc |-> "idle", lat |-> 0, lng |-> 0, primary |-> "", fallback |-> "",
            result |-> NoResult]
\* MapComponent before any click: no watch, nothing tracked
TrackIdle ==
    /\ isLiveTracking = FALSE
    /\ watchId = 0
    /\ locationError = ""
    /\ deviceWatches = {}
    /\ geocoding = {}
    /\ nextWatchId = 1
    /\ fixes = 0
    /\ delivered = 0
    /\ erroredSince = FALSE
    /\ trackOp = "none"
NoToggle == [id |-> RouteId("", 0), before |-> FALSE, n |-> 0]
NoneAdded == [c \in SearchCoords |-> 0]

Init ==
    /\ \E s \in SeedSessions, c \in SeedCaches, cur \in BOOLEAN :
        /\ ls_auth_token = s[1]
        /\ ls_user = s[2]
        /\ ls_user_temp = s[3]
        /\ ls_refresh_token = s[4]
        /\ ls_signup_data = s[5]
        /\ ls_local_routes = c[1]
        /\ ls_user_routes = c[2]
        /\ serverRoutes = c[2]
        /\ serverNextId = Len(c[2]) + 1
        /\ ls_current_route =
              IF cur /\ Len(c[1]) = 1 THEN c[1][1] ELSE Absent
    /\ user = Absent
    /\ initialized = FALSE
    /\ refreshInterval = FALSE
    /\ loading = FALSE
    /\ mounted = FALSE
    /\ routes = <<>>
    /\ currentRoute = Absent
    /\ routesLoaded = FALSE
    /\ loadCall = LoadIdle("none")
    /\ addCall = Idle
    /\ toggleCall = Idle
    /\ deleteCall = DeleteIdle(NoId)
    /\ logoutCall = Idle
    /\ validateCall = Idle
    /\ signinCall = FetchIdle
    /\ refreshCall = FetchIdle
    /\ signupCall = OtpIdle
    /\ otpCall = OtpIdle
    /\ verifyCall = OtpIdle
    /\ redirect = FALSE
    /\ TrackIdle
    /\ geoCall = GeoIdle
    /\ geoLoading = FALSE
    /\ geoError = ""
    /\ clock = 0
    /\ lastOp = "load"
    /\ ops = 0
    /\ deletedIds = {}
    /\ toggled = NoToggle
    /\ added = NoneAdded

(***************************************************************************)
(* Reads of localStorage and the effects that follow a render.             *)
(***************************************************************************)
\* JSON.parse(localStorage.getItem('mapguide_user') || '{}').isAuthenticated
IsAuthenticatedUser(stored) == stored.kind = "user" /\ stored.isAuthenticated

\* user.isAuthenticated && localStorage.getItem('auth_token')
UsesBackend(stored, token) == IsAuthenticatedUser(stored) /\ token # 0

\* user?.id, the dependency of the RouteFinder effect
UserIdOf(u) == IF u = Absent THEN -1 ELSE u.id

\* RouteFinder is rendered behind ProtectedRoute: only with a user
FinderMounted(isInit, isMounted, u) == isInit /\ isMounted /\ u # Absent

\* The RouteFinder effect [user?.id, setCurrentRoute] runs when the component
\* mounts, when user?.id changes, and after every render of AppProvider
\* (setCurrentRouteAndPersist is a new function on each render).
FinderEffectRuns(appRendered, newInit, newMounted, newUser) ==
    /\ FinderMounted(newInit, newMounted, newUser)
    /\ \/ appRendered
       \/ ~FinderMounted(initialized, mounted, user)
       \/ UserIdOf(newUser) # UserIdOf(user)

\* The persist effect [routes, routesLoaded] of AppProvider.
PersistEffectRuns(newRoutes, routesChanged, newLoaded) ==
    /\ routesChanged \/ newLoaded # routesLoaded
    /\ newLoaded /\ Len(newRoutes) > 0

\* What a handler leaves in AppProvider state, followed by the two effects.
\*   newRoutes, routesChanged: setRoutes and whether it passed a new array
\*   newCurrent, storedCurrent: setCurrentRoute and 'current_route'
\*   appRendered: some AppProvider state was set
\*   newUser, storedUser: AuthProvider user and 'mapguide_user' afterwards
Render(newRoutes, routesChanged, newCurrent, storedCurrent, newLoaded, appRendered, newMounted, newInit, newUser, storedUser) ==
    LET finder == FinderEffectRuns(appRendered, newInit, newMounted, newUser)
        persist == PersistEffectRuns(newRoutes, routesChanged, newLoaded)
    IN  /\ routes' = newRoutes
        /\ routesLoaded' = newLoaded
        /\ currentRoute' = IF finder THEN Absent ELSE newCurrent
        /\ ls_current_route' = IF finder THEN Absent ELSE storedCurrent
        /\ ls_user_routes' =
              IF persist /\ IsAuthenticatedUser(storedUser)
              THEN newRoutes ELSE ls_user_routes
        /\ ls_local_routes' =
              IF persist /\ ~IsAuthenticatedUser(storedUser)
              THEN newRoutes ELSE ls_local_routes

\* the response interceptor of the shared axios client that handles no status
Handles401_Never(status, retried) == FALSE

\* api.interceptors.response: error.response?.status === 401 &&
\* !originalRequest._retry (no request of the program is sent twice, so _retry
\* is false whenever an answer arrives)
Handles401(status, retried) == status = 401 /\ ~retried

\* !window.location.pathname.includes('/login'): the router shows /login
\* exactly while there is no user
OnLoginPage == user = Absent

\* a handler of AppProvider that continues from an answer with this status
\* (0: no request was answered): the interceptor runs first, then the handler
\* and the effects; the React state of AuthProvider is left alone
AppRenderOn(status, newRoutes, routesChanged, newCurrent, storedCurrent, newLoaded, appRendered) ==
    LET cleared == Handles401(status, FALSE)
        storedUser == IF cleared THEN Absent ELSE ls_user
    IN  /\ ls_auth_token' = IF cleared THEN 0 ELSE ls_auth_token
        /\ ls_user' = storedUser
        /\ redirect' = (redirect \/ (cleared /\ ~OnLoginPage))
        /\ Render(newRoutes, routesChanged, newCurrent, storedCurrent, newLoaded,
                  appRendered, TRUE, initialized, user, storedUser)
        /\ mounted' = TRUE
        /\ UNCHANGED <<ls_user_temp, ls_refresh_token, ls_signup_data, authVars>>

\* a handler of AppProvider that continues from no answer or an OK answer
AppRender(newRoutes, routesChanged, newCurrent, storedCurrent, newLoaded, appRendered) ==
    AppRenderOn(0, newRoutes, routesChanged, newCurrent, storedCurrent,
                newLoaded, appRendered)

(***************************************************************************)
(* AppProvider: loadRoutes.                                                *)
(***************************************************************************)
\* response.content.map(...): the fetched page as Route objects
Transformed(page) ==
    [i \in 1..Len(page) |->
        RouteRec(page[i].id, page[i].coords, page[i].isFavorite, "auth")]

\* localRoutes.forEach: push the record unless mergedRoutes.find sees its id
RECURSIVE PushMissing(_, _)
PushMissing(merged, localRoutes) ==
    IF localRoutes = <<>> THEN merged
    ELSE IF HasId(merged, Head(localRoutes).id)
         THEN PushMissing(merged, Tail(localRoutes))
         ELSE PushMissing(Append(merged, Head(localRoutes)), Tail(localRoutes))

\* the merge that keeps every cached record
MergeRoutes_KeepAll(merged, localRoutes) == merged \o localRoutes

\* mergedRoutes: the page, then the cached records whose id is not in it
MergeRoutes(merged, localRoutes) == PushMissing(merged, localRoutes)

\* the end of loadRoutes: restore the current route, setRoutesLoaded(true)
FinishLoad(status, loaded, storedCurrent, op) ==
    /\ AppRenderOn(status, loaded, TRUE,
                 IF storedCurrent # Absent THEN storedCurrent ELSE currentRoute,
                 storedCurrent, TRUE, TRUE)
    /\ lastOp' = op
    /\ toggled' = NoToggle
    /\ added' = NoneAdded

\* loadRoutes up to its first suspension point; by: the caller (history), and
\* cache: 'mapguide_user_routes' as it is at the call (history)
LoadRoutesCall(storedCurrent, by) ==
    IF ls_user = Unparsable
    THEN \* JSON.parse throws into the outer catch: setRoutesLoaded(true)
         /\ loadCall' = LoadIdle(by)
         /\ AppRender(routes, FALSE, currentRoute, storedCurrent, TRUE, TRUE)
         /\ lastOp' = "LoadThrew"
         /\ UNCHANGED <<toggled, added>>
    ELSE IF UsesBackend(ls_user, ls_auth_token)
    THEN /\ loadCall' = [pc |-> "await", by |-> by, cache |-> ls_user_routes]
         /\ AppRender(routes, FALSE, currentRoute, storedCurrent, routesLoaded, TRUE)
         /\ lastOp' = "LoadRoutesCall"
         /\ UNCHANGED <<toggled, added>>
    ELSE /\ loadCall' = LoadIdle(by)
         /\ FinishLoad(0, ls_local_routes, storedCurrent, "LoadGuest")

\* AppProvider mounts once AuthProvider is initialized; the mount effect of
\* RouteFinder (a child) runs before loadRoutes
MountApp ==
    /\ initialized /\ ~mounted
    /\ LoadRoutesCall(IF user # Absent THEN Absent ELSE ls_current_route,
                      "mount")
    /\ UNCHANGED <<addCall, toggleCall, deleteCall, logoutCall, validateCall,
                   signinCall, refreshCall, envVars, ops, deletedIds,
                   otpVars, trackVars, geoVars>>


\* the fallback that reads the guest-scope list
FallbackList_Guest == ls_local_routes

\* JSON.parse(localStorage.getItem('mapguide_user_routes') || '[]')
FallbackList == ls_user_routes

\* the answers of GET /routes/user that loadRoutes tells apart
LoadOutcomes == {"content", "empty", "error", "unauthorized"}

\* loadRoutes after await routeService.getUserRoutes(0, 50)
LoadRoutesDone(outcome) ==
    /\ loadCall.pc = "await"
    /\ loadCall' = LoadIdle(loadCall.by)
    /\ IF outcome = "content"
       THEN FinishLoad(200,
                       MergeRoutes(Transformed(Slice(serverRoutes, PageSize)),
                                   ls_user_routes),
                       ls_current_route, "LoadMerged")
       ELSE IF outcome = "unauthorized"
            THEN FinishLoad(401, FallbackList, ls_current_route, "LoadDenied")
            ELSE FinishLoad(0, FallbackList, ls_current_route, "LoadFallback")
    /\ UNCHANGED <<addCall, toggleCall, deleteCall, logoutCall, validateCall,
                   signinCall, refreshCall, envVars, ops, deletedIds,
                   otpVars, trackVars, geoVars>>

\* the route operations are offered by RouteFinder and its history panel
RouteUiReady == mounted /\ initialized /\ user # Absent /\ ops < MaxOps

\* refreshRoutes: re-runs loadRoutes
RefreshRoutes ==
    /\ RouteUiReady
    /\ loadCall.pc = "idle"
    /\ LoadRoutesCall(ls_current_route, "refresh")
    /\ ops' = ops + 1
    /\ UNCHANGED <<addCall, toggleCall, deleteCall, logoutCall, validateCall,
                   signinCall, refreshCall, envVars, deletedIds,
                   otpVars, trackVars, geoVars>>

(***************************************************************************)
(* AppProvider: addRoute.                                                  *)
(***************************************************************************)
\* route.id || `local_${Date.now()}`
LocalRoute(route, now) ==
    [route EXCEPT !.id = IF route.id = NoId THEN RouteId("local_", now)
                         ELSE route.id]

\* AddLocal without the cut to 49 kept records
AddLocal_Uncapped(prev, localRoute) ==
    IF \E i \in 1..Len(prev) : prev[i].coords = localRoute.coords
    THEN prev
    ELSE <<localRoute>> \o prev

\* the updater of the local path: keep prev when the coordinates are known
AddLocal(prev, localRoute) ==
    IF \E i \in 1..Len(prev) : prev[i].coords = localRoute.coords
    THEN prev
    ELSE <<localRoute>> \o Slice(prev, KeepOnPrepend)

\* the updater of the server-confirmed path
AddConfirmed(prev, transformedRoute) ==
    <<transformedRoute>> \o Slice(prev, KeepOnPrepend)

\* the record built from the answer of POST /routes/save
TransformedRoute(route, savedId) ==
    RouteRec(RouteId("", savedId), route.coords, FALSE, route.origin)

\* history: completed addRoute calls in a row with these coordinates, counted
\* from a list that held no record with them
AddCounted(coords) ==
    IF added[coords] = 0
    THEN IF CountCoords(routes, coords) = 0 THEN 1 ELSE 0
    ELSE 2

\* the local path of addRoute, from the list the earlier updaters produced
AddRouteLocally(status, prev, confirmed, route, op) ==
    LET localRoute == LocalRoute(route, ClockIdBase + clock)
        next == AddLocal(prev, localRoute)
    IN  /\ AppRenderOn(status, next, confirmed \/ next # prev, localRoute,
                     ls_current_route, routesLoaded, TRUE)
        /\ lastOp' = op
        /\ toggled' = NoToggle
        /\ added' = [added EXCEPT ![route.coords] = AddCounted(route.coords)]

\* what handleFindRoute gets from routeService.getRoute: the route of the
\* backend, or, after a 401 of the backend, the route of the OSRM fallback
RouteAnswers == {"computed", "denied"}

\* handleFindRoute after getRoute resolved: it builds the record (id:
\* Date.now().toString()) and calls addRoute, which runs to its first
\* suspension point
FindRoute(coords, answer) ==
    /\ RouteUiReady
    /\ addCall.pc = "idle"
    /\ ops' = ops + 1
    /\ clock' = clock + 1
    /\ LET newRoute == RouteRec(RouteId("", ClockIdBase + clock), coords, FALSE,
                                IF user.isAuthenticated THEN "auth" ELSE "guest")
       IN  IF answer = "denied"
           THEN \* the interceptor has removed the user record: local path
                /\ addCall' = Idle
                /\ AddRouteLocally(401, routes, FALSE, newRoute, "FindRouteDenied")
           ELSE IF ls_user = Unparsable
           THEN \* JSON.parse throws; the catch block rethrows to the caller
                /\ addCall' = Idle
                /\ AppRender(routes, FALSE, currentRoute, ls_current_route,
                             routesLoaded, TRUE)
                /\ lastOp' = "AddRouteThrew"
                /\ UNCHANGED <<toggled, added>>
           ELSE IF UsesBackend(ls_user, ls_auth_token)
           THEN /\ addCall' = [pc |-> "await", route |-> newRoute]
                /\ AppRender(routes, FALSE, currentRoute, ls_current_route,
                             routesLoaded, TRUE)
                /\ lastOp' = "AddRouteCall"
                /\ UNCHANGED <<toggled, added>>
           ELSE /\ addCall' = Idle
                /\ AddRouteLocally(0, routes, FALSE, newRoute, "AddRouteLocal")
    /\ UNCHANGED <<loadCall, toggleCall, deleteCall, logoutCall, validateCall,
                   signinCall, refreshCall, serverRoutes, serverNextId,
                   deletedIds,
                   otpVars, trackVars, geoVars>>

\* addRoute after await routeService.calculate(routeRequest) resolved: the
\* try block ends without a return, so the local path runs as well
AddRouteSaved ==
    /\ addCall.pc = "await"
    /\ addCall' = Idle
    /\ LET transformedRoute == TransformedRoute(addCall.route, serverNextId)
       IN  /\ serverRoutes' = <<transformedRoute>> \o serverRoutes
           /\ serverNextId' = serverNextId + 1
           /\ AddRouteLocally(200, AddConfirmed(routes, transformedRoute), TRUE,
                              addCall.route, "AddRouteSaved")
    /\ UNCHANGED <<loadCall, toggleCall, deleteCall, logoutCall, validateCall,
                   signinCall, refreshCall, clock, ops, deletedIds,
                   otpVars, trackVars, geoVars>>

\* the ways a request of the shared axios client fails: answered with 401, or
\* otherwise (another error status, no answer)
Failures == {"denied", "failed"}
FailureStatus(failure) == IF failure = "denied" THEN 401 ELSE 0

\* addRoute after routeService.calculate threw
AddRouteFailed(failure) ==
    /\ addCall.pc = "await"
    /\ addCall' = Idle
    /\ AddRouteLocally(FailureStatus(failure), routes, FALSE, addCall.route,
                       IF failure = "denied" THEN "AddRouteDenied"
                       ELSE "AddRouteFailed")
    /\ UNCHANGED <<loadCall, toggleCall, deleteCall, logoutCall, validateCall,
                   signinCall, refreshCall, envVars, ops, deletedIds,
                   otpVars, trackVars, geoVars>>


(***************************************************************************)
(* AppProvider: toggleFavorite.                                            *)
(***************************************************************************)
\* prev.map(route => route.id === routeId ? {...route, isFavorite: f(route)} : route)
SetFavorite(prev, routeId, value) ==
    [i \in 1..Len(prev) |->
        IF prev[i].id = routeId THEN [prev[i] EXCEPT !.isFavorite = value]
        ELSE prev[i]]
FlipFavorite(prev, routeId) ==
    [i \in 1..Len(prev) |->
        IF prev[i].id = routeId
        THEN [prev[i] EXCEPT !.isFavorite = ~prev[i].isFavorite]
        ELSE prev[i]]

\* currentRoute?.id === routeId, on the currentRoute the handler closed over
SeenAsCurrent(seen, routeId) == seen # Absent /\ seen.id = routeId

\* the favorite flag of routeId in a list (FALSE when it is not there)
FavoriteOf(list, routeId) ==
    \E i \in 1..Len(list) : list[i].id = routeId /\ list[i].isFavorite

\* history: completed toggles in a row on one record, and its flag before
ToggleCounted(routeId) ==
    IF ~HasId(routes, routeId) THEN NoToggle
    ELSE IF toggled.n = 1 /\ toggled.id = routeId
         THEN [toggled EXCEPT !.n = 2]
         ELSE [id |-> routeId, before |-> FavoriteOf(routes, routeId), n |-> 1]

\* the local update: flip the flag in the list and in the current route
ToggleLocally(status, routeId, seen, op) ==
    /\ AppRenderOn(status, FlipFavorite(routes, routeId), TRUE,
                 IF SeenAsCurrent(seen, routeId) /\ currentRoute # Absent
                 THEN [currentRoute EXCEPT !.isFavorite = ~currentRoute.isFavorite]
                 ELSE currentRoute,
                 ls_current_route, routesLoaded, TRUE)
    /\ lastOp' = op
    /\ toggled' = ToggleCounted(routeId)
    /\ added' = NoneAdded

\* toggleFavorite(routeId) up to its first suspension point
ToggleFavorite(row) ==
    /\ RouteUiReady
    /\ toggleCall.pc = "idle"
    /\ row <= Len(routes)
    /\ ops' = ops + 1
    /\ LET routeId == routes[row].id
       IN  IF ls_user = Unparsable
           THEN \* JSON.parse throws; the catch block rethrows to the caller
                /\ toggleCall' = Idle
                /\ lastOp' = "ToggleThrew"
                /\ UNCHANGED <<storageVars, authVars, appVars, redirect,
                               toggled, added>>
           ELSE IF /\ UsesBackend(ls_user, ls_auth_token)
              /\ ~StartsWithLocal(routeId)
              /\ ParsesAsInt(routeId)
           THEN /\ toggleCall' = [pc |-> "await", id |-> routeId,
                                  seen |-> currentRoute, later |-> Absent]
                /\ lastOp' = "ToggleCall"
                /\ UNCHANGED <<storageVars, authVars, appVars, redirect,
                               toggled, added>>
           ELSE /\ toggleCall' = Idle
                /\ ToggleLocally(0, routeId, currentRoute, "ToggleLocal")
    /\ UNCHANGED <<loadCall, addCall, deleteCall, logoutCall, validateCall,
                   signinCall, refreshCall, envVars, deletedIds,
                   otpVars, trackVars, geoVars>>

\* toggleFavorite after PUT /routes/{id}/favorite answered: the backend has
\* flipped its flag and the answer carries the new value
ToggleConfirmed ==
    /\ toggleCall.pc = "await"
    /\ HasId(serverRoutes, toggleCall.id)
    /\ toggleCall' = Idle
    /\ LET favorite == ~FavoriteOf(serverRoutes, toggleCall.id)
       IN  /\ serverRoutes' = SetFavorite(serverRoutes, toggleCall.id, favorite)
           /\ AppRender(SetFavorite(routes, toggleCall.id, favorite), TRUE,
                        IF /\ SeenAsCurrent(toggleCall.seen, toggleCall.id)
                           /\ currentRoute # Absent
                        THEN [currentRoute EXCEPT !.isFavorite = favorite]
                        ELSE currentRoute,
                        ls_current_route, routesLoaded, TRUE)
    /\ lastOp' = "ToggleConfirmed"
    /\ toggled' = ToggleCounted(toggleCall.id)
    /\ added' = NoneAdded
    /\ UNCHANGED <<loadCall, addCall, deleteCall, logoutCall, validateCall,
                   signinCall, refreshCall, serverNextId, clock, ops,
                   deletedIds,
                   otpVars, trackVars, geoVars>>

\* toggleFavorite after the backend call threw
ToggleFailed(failure) ==
    /\ toggleCall.pc = "await"
    /\ toggleCall' = Idle
    /\ ToggleLocally(FailureStatus(failure), toggleCall.id, toggleCall.seen,
                     IF failure = "denied" THEN "ToggleDenied"
                     ELSE "ToggleFailed")
    /\ UNCHANGED <<loadCall, addCall, deleteCall, logoutCall, validateCall,
                   signinCall, refreshCall, envVars, ops, deletedIds,
                   otpVars, trackVars, geoVars>>

(***************************************************************************)
(* AppProvider: deleteRoute and setCurrentRoute.                           *)
(***************************************************************************)
\* the filter that removes nothing
RemoveRoute_Nothing(prev, routeId) == prev

\* prev.filter(route => route.id !== routeId)
RemoveRoute(prev, routeId) ==
    LET keep(r) == r.id # routeId IN SelectSeq(prev, keep)

\* the local removal, after the remote delete was tried or skipped
DeleteLocally(status, routeId, seen, op) ==
    /\ AppRenderOn(status, RemoveRoute(routes, routeId), TRUE,
                 IF SeenAsCurrent(seen, routeId) THEN Absent ELSE currentRoute,
                 IF SeenAsCurrent(seen, routeId) THEN Absent ELSE ls_current_route,
                 routesLoaded, TRUE)
    /\ lastOp' = op
    /\ toggled' = NoToggle
    /\ added' = NoneAdded
    /\ deletedIds' = deletedIds \cup {routeId}

\* deleteRoute(routeId) up to its first suspension point
DeleteRoute(row) ==
    /\ RouteUiReady
    /\ deleteCall.pc = "idle"
    /\ row <= Len(routes)
    /\ ops' = ops + 1
    /\ LET routeId == routes[row].id
       IN  IF ls_user = Unparsable
           THEN \* JSON.parse throws; the catch block rethrows to the caller
                /\ deleteCall' = DeleteIdle(routeId)
                /\ lastOp' = "DeleteThrew"
                /\ UNCHANGED <<storageVars, authVars, appVars, redirect,
                               toggled, added, deletedIds>>
           ELSE IF /\ UsesBackend(ls_user, ls_auth_token)
              /\ ~StartsWithLocal(routeId)
              /\ ParsesAsInt(routeId)
           THEN /\ deleteCall' = [pc |-> "await", id |-> routeId,
                                  seen |-> currentRoute, later |-> Absent]
                /\ lastOp' = "DeleteCall"
                /\ UNCHANGED <<storageVars, authVars, appVars, redirect,
                               toggled, added, deletedIds>>
           ELSE /\ deleteCall' = DeleteIdle(routeId)
                /\ DeleteLocally(0, routeId, currentRoute, "DeleteLocal")
    /\ UNCHANGED <<loadCall, addCall, toggleCall, logoutCall, validateCall,
                   signinCall, refreshCall, envVars,
                   otpVars, trackVars, geoVars>>

\* deleteRoute after DELETE /routes/{id} answered
DeleteConfirmed ==
    /\ deleteCall.pc = "await"
    /\ HasId(serverRoutes, deleteCall.id)
    /\ deleteCall' = DeleteIdle(deleteCall.id)
    /\ serverRoutes' = RemoveRoute(serverRoutes, deleteCall.id)
    /\ DeleteLocally(200, deleteCall.id, deleteCall.seen, "DeleteConfirmed")
    /\ UNCHANGED <<loadCall, addCall, toggleCall, logoutCall, validateCall,
                   signinCall, refreshCall, serverNextId, clock, ops,
                   otpVars, trackVars, geoVars>>

\* deleteRoute after the backend call threw
DeleteFailed(failure) ==
    /\ deleteCall.pc = "await"
    /\ deleteCall' = DeleteIdle(deleteCall.id)
    /\ DeleteLocally(FailureStatus(failure), deleteCall.id, deleteCall.seen,
                     IF failure = "denied" THEN "DeleteDenied"
                     ELSE "DeleteFailed")
    /\ UNCHANGED <<loadCall, addCall, toggleCall, logoutCall, validateCall,
                   signinCall, refreshCall, envVars, ops,
                   otpVars, trackVars, geoVars>>

\* history: a pending toggleFavorite or deleteRoute notes the record that
\* was selected while it is in flight
NoteSelected(call, route) ==
    IF call.pc = "await" THEN [call EXCEPT !.later = route] ELSE call

\* setCurrentRouteAndPersist(route), called by handleSelectRoute on a row of
\* the history panel
SelectRoute(row) ==
    /\ RouteUiReady
    /\ row <= Len(routes)
    /\ ops' = ops + 1
    /\ AppRender(routes, FALSE, routes[row], routes[row], routesLoaded, TRUE)
    /\ lastOp' = "SelectRoute"
    /\ toggleCall' = NoteSelected(toggleCall, routes[row])
    /\ deleteCall' = NoteSelected(deleteCall, routes[row])
    /\ UNCHANGED <<loadCall, addCall, logoutCall, validateCall, signinCall,
                   refreshCall, envVars, deletedIds, toggled, added,
                   otpVars, trackVars, geoVars>>


(***************************************************************************)
(* services/api: fetchWithRetry.                                           *)
(***************************************************************************)
\* what one attempt can end with: a response, a timeout abort, another error
FetchStatuses == {200, 304, 401, 503}
FetchEvents ==
    [kind : {"response"}, status : FetchStatuses]
    \cup {[kind |-> "abort", status |-> 0], [kind |-> "error", status |-> 0]}

\* response.ok
ResponseOk(status) == status >= 200 /\ status <= 299

FetchBegin == [FetchIdle EXCEPT !.pc = "fetch", !.sent = 1]

\* one iteration of the for loop, from the end of `await fetch(...)`
FetchWithRetry(call, event) ==
    IF event.kind = "response"
    THEN IF ResponseOk(event.status) \/ event.status >= 400
         THEN [call EXCEPT !.pc = "returned", !.status = event.status]
         ELSE IF call.i < maxRetries /\ event.status >= 500
              THEN [call EXCEPT !.i = call.i + 1, !.sent = call.sent + 1,
                                !.waited = ServerErrorBackoff * (call.i + 1)]
              ELSE [call EXCEPT !.pc = "returned", !.status = event.status]
    ELSE IF call.i = maxRetries \/ event.kind # "abort"
         THEN [call EXCEPT !.pc = "thrown"]
         ELSE [call EXCEPT !.i = call.i + 1, !.sent = call.sent + 1,
                           !.waited = TimeoutBackoff * (call.i + 1)]

(***************************************************************************)
(* AuthProvider.                                                           *)
(***************************************************************************)
\* What a handler of AuthProvider leaves behind, followed by the effects:
\* the refresh-interval effect [user] and the RouteFinder effect.  AppProvider
\* does not render (it is passed as children).
SessionRender(newUser, userSet, newInit, token, storedUser, storedTemp, storedRefresh, storedSignup) ==
    /\ user' = newUser
    /\ initialized' = newInit
    /\ refreshInterval' = IF userSet
                          THEN newUser # Absent /\ newUser.isAuthenticated
                               /\ token # 0
                          ELSE refreshInterval
    /\ ls_auth_token' = token
    /\ ls_user' = storedUser
    /\ ls_user_temp' = storedTemp
    /\ ls_refresh_token' = storedRefresh
    /\ ls_signup_data' = storedSignup
    /\ Render(routes, FALSE, currentRoute, ls_current_route, routesLoaded,
              FALSE, mounted, newInit, newUser, storedUser)
    /\ UNCHANGED mounted

\* a handler that leaves 'refresh_token' and 'temp_signup_data' alone
AuthRender(newUser, userSet, newInit, token, storedUser, storedTemp) ==
    SessionRender(newUser, userSet, newInit, token, storedUser, storedTemp,
                  ls_refresh_token, ls_signup_data)

\* clearAuthData that leaves the refresh token and the signup payload
ClearAuthData_KeepsSignup(newInit) ==
    SessionRender(Absent, TRUE, newInit, 0, Absent, Absent, ls_refresh_token,
                  ls_signup_data)

\* clearAuthData()
ClearAuthData(newInit) ==
    SessionRender(Absent, TRUE, newInit, 0, Absent, Absent, 0, Absent)

\* no handler state is touched
AuthUntouched ==
    AuthRender(user, FALSE, initialized, ls_auth_token, ls_user, ls_user_temp)

\* initializeAuth(), run once by the mount effect of AuthProvider
\* setInitialized that is skipped when a stored record did not parse
SetInitialized_UnlessThrown(threw) == ~threw

\* finally { setInitialized(true) }: whether or not JSON.parse threw
SetInitialized(threw) == TRUE

InitializeAuth ==
    /\ ~initialized
    /\ IF ls_user # Absent /\ ls_auth_token # 0
       THEN IF ls_user.kind = "user"
            THEN /\ AuthRender(UserRec(ls_user.id, TRUE), TRUE, SetInitialized(FALSE),
                               ls_auth_token, ls_user, ls_user_temp)
                 /\ validateCall' = [pc |-> "await"]
            ELSE /\ ClearAuthData(SetInitialized(TRUE))
                 /\ UNCHANGED validateCall
       ELSE /\ UNCHANGED validateCall
            /\ IF ls_user_temp # Absent
               THEN IF ls_user_temp.kind = "user"
                    THEN AuthRender(ls_user_temp, TRUE, SetInitialized(FALSE),
                                    ls_auth_token, ls_user, ls_user_temp)
                    ELSE AuthRender(user, FALSE, SetInitialized(TRUE),
                                    ls_auth_token, ls_user, Absent)
               ELSE AuthRender(user, FALSE, SetInitialized(FALSE), ls_auth_token,
                               ls_user, ls_user_temp)
    /\ lastOp' = "InitializeAuth"
    /\ UNCHANGED <<loadCall, addCall, toggleCall, deleteCall, logoutCall,
                   signinCall, refreshCall, envVars, ops, deletedIds, toggled, added,
                   otpVars, redirect, trackVars, geoVars, loading>>

\* ValidationFailure that logs the user out
ValidationFailure_Logout == ClearAuthData(initialized)

\* validateTokenInBackground: `!response.ok` and the catch block only log
ValidationFailure == AuthUntouched

\* validateTokenInBackground: the answer of POST /auth/validate
ValidateOutcomes == {"ValidateOk", "ValidateRejected", "ValidateError"}
ValidateDone(outcome) ==
    /\ validateCall.pc = "await"
    /\ validateCall' = Idle
    /\ IF outcome = "ValidateOk" THEN AuthUntouched ELSE ValidationFailure
    /\ lastOp' = outcome
    /\ UNCHANGED <<loadCall, addCall, toggleCall, deleteCall, logoutCall,
                   signinCall, refreshCall, envVars, ops, deletedIds, toggled, added,
                   otpVars, redirect, trackVars, geoVars, loading>>

\* the session operations are offered once the providers are up
AuthUiReady == mounted /\ initialized /\ ops < MaxOps

\* tokens the auth backend issues
Tokens == {1, 2}
\* data.data of an OK answer: accessToken (0: missing) and user id (0: missing)
AuthBodies == [accessToken : Tokens \cup {0}, user : {0, ServerUserId}]

\* login(email, password): LoginPage is shown while there is no user
Login ==
    /\ AuthUiReady
    /\ user = Absent
    /\ signinCall.pc # "fetch"
    /\ signinCall' = FetchBegin
    /\ ops' = ops + 1
    /\ AuthUntouched
    /\ loading' = TRUE
    /\ lastOp' = "LoginCall"
    /\ UNCHANGED <<loadCall, addCall, toggleCall, deleteCall, logoutCall,
                   validateCall, refreshCall, envVars, deletedIds, toggled, added,
                   otpVars, redirect, trackVars, geoVars>>

\* SigninAccepted that does not ask for the user
SigninAccepted_TokenOnly(answered, body) == answered /\ body.accessToken # 0

\* response && response.accessToken && response.user, on an OK answer
SigninAccepted(answered, body) ==
    answered /\ body.accessToken # 0 /\ body.user # 0

\* one attempt of fetchWithRetry ends; when the helper returns or throws,
\* authService.signin and login run to their end
LoginStep(event, body) ==
    /\ signinCall.pc = "fetch"
    /\ LET call == FetchWithRetry(signinCall, event)
           answered == call.pc = "returned" /\ ResponseOk(call.status)
       IN  /\ signinCall' = IF answered THEN [call EXCEPT !.body = body] ELSE call
           /\ loading' = IF call.pc = "fetch" THEN loading ELSE FALSE
           /\ IF call.pc = "fetch"
              THEN AuthUntouched /\ lastOp' = "LoginRetry"
              ELSE IF SigninAccepted(answered, body)
                   THEN /\ AuthRender(UserRec(body.user, TRUE), TRUE, initialized,
                                      body.accessToken, UserRec(body.user, TRUE),
                                      Absent)
                        /\ lastOp' = "LoginOk"
                   ELSE AuthUntouched /\ lastOp' = "LoginFailed"
    /\ UNCHANGED <<loadCall, addCall, toggleCall, deleteCall, logoutCall,
                   validateCall, refreshCall, envVars, ops, deletedIds, toggled, added,
                   otpVars, redirect, trackVars, geoVars>>

\* a quickLogin that leaves the token of the account in place
TokenAfterQuickLogin_Kept == ls_auth_token

\* localStorage.removeItem('auth_token')
TokenAfterQuickLogin == 0

\* quickLogin(); the step is named "QuickLoginOver" when a token or a user
\* record was persisted before it (history)
QuickLogin ==
    /\ AuthUiReady
    /\ user = Absent
    /\ ops' = ops + 1
    /\ clock' = clock + 1
    /\ LET tempUser == UserRec(GuestIdBase + clock + 1, FALSE)
       IN  AuthRender(tempUser, TRUE, initialized, TokenAfterQuickLogin, Absent,
                      tempUser)
    /\ loading' = FALSE
    /\ lastOp' = IF ls_auth_token # 0 \/ ls_user # Absent THEN "QuickLoginOver"
                 ELSE "QuickLogin"
    /\ UNCHANGED <<callVars, serverRoutes, serverNextId, deletedIds, toggled, added,
                   otpVars, redirect, trackVars, geoVars>>

\* logout() up to `await authService.signout()`; without a token it runs to
\* its end
Logout ==
    /\ AuthUiReady
    /\ user # Absent
    /\ logoutCall.pc = "idle"
    /\ ops' = ops + 1
    /\ IF ls_auth_token # 0
       THEN /\ logoutCall' = [pc |-> "await"]
            /\ AuthUntouched
            /\ lastOp' = "LogoutCall"
       ELSE /\ logoutCall' = Idle
            /\ ClearAuthData(initialized)
            /\ lastOp' = "LogoutLocal"
    /\ UNCHANGED <<loadCall, addCall, toggleCall, deleteCall, validateCall,
                   signinCall, refreshCall, envVars, deletedIds, toggled, added,
                   otpVars, redirect, trackVars, geoVars, loading>>

\* what the fetch of POST /auth/signout ends with
SignoutOutcomes == {"LogoutSignedOut", "LogoutSignoutFailed"}

\* authService.signout() after its fetch settled: it swallows the error and
\* removes its three keys; then the finally block of logout
LogoutDone(outcome) ==
    /\ logoutCall.pc = "await"
    /\ logoutCall' = Idle
    /\ ClearAuthData(initialized)
    /\ lastOp' = outcome
    /\ UNCHANGED <<loadCall, addCall, toggleCall, deleteCall, validateCall,
                   signinCall, refreshCall, envVars, ops, deletedIds, toggled, added,
                   otpVars, redirect, trackVars, geoVars, loading>>

\* the 20-minute interval calls refreshToken()
RefreshToken ==
    /\ AuthUiReady
    /\ refreshInterval
    /\ refreshCall.pc # "fetch"
    /\ ops' = ops + 1
    /\ IF ls_auth_token = 0
       THEN UNCHANGED refreshCall /\ lastOp' = "RefreshSkipped"
       ELSE refreshCall' = FetchBegin /\ lastOp' = "RefreshCall"
    /\ AuthUntouched
    /\ UNCHANGED <<loadCall, addCall, toggleCall, deleteCall, logoutCall,
                   validateCall, signinCall, envVars, deletedIds, toggled, added,
                   otpVars, redirect, trackVars, geoVars, loading>>

\* RefreshFailure that logs the user out
RefreshFailure_Logout == ClearAuthData(initialized)

\* refreshToken: the catch block, and an answer without accessToken
RefreshFailure == AuthUntouched

\* one attempt of fetchWithRetry ends; when the helper returns or throws,
\* authService.refresh and refreshToken run to their end
RefreshStep(event, body) ==
    /\ refreshCall.pc = "fetch"
    /\ LET call == FetchWithRetry(refreshCall, event)
           answered == call.pc = "returned" /\ ResponseOk(call.status)
       IN  /\ refreshCall' = IF answered THEN [call EXCEPT !.body = body] ELSE call
           /\ IF call.pc = "fetch"
              THEN AuthUntouched /\ lastOp' = "RefreshRetry"
              ELSE IF answered /\ body.accessToken # 0
                   THEN /\ IF body.user # 0
                           THEN AuthRender(UserRec(body.user, TRUE), TRUE,
                                           initialized, body.accessToken,
                                           UserRec(body.user, TRUE), ls_user_temp)
                           ELSE AuthRender(user, FALSE, initialized,
                                           body.accessToken, ls_user, ls_user_temp)
                        /\ lastOp' = "RefreshOk"
                   ELSE RefreshFailure /\ lastOp' = "RefreshFailed"
    /\ UNCHANGED <<loadCall, addCall, toggleCall, deleteCall, logoutCall,
                   validateCall, signinCall, envVars, ops, deletedIds, toggled, added,
                   otpVars, redirect, trackVars, geoVars, loading>>

(***************************************************************************)
(* AuthProvider: the OTP-gated signup.                                     *)
(***************************************************************************)
\* `${API_BASE_URL}/otp/...`: services/api.ts declares no API_BASE_URL, so the
\* URL is built only where the build defines that global; elsewhere the
\* template throws a ReferenceError inside the try block, before any request
UrlOutcomes == {"built", "ReferenceError"}

\* what the awaited fetch of /otp/send and /otp/signup-with-otp ends with: an
\* OK answer, an answer that is not OK, a network error or timeout
OtpOutcomes == {"ok", "rejected", "error"}

\* the call record of a handler that awaits its request / that threw
OtpAwait(email) ==
    [pc |-> "await", email |-> email, sent |-> 1, error |-> "", body |-> NoBody]
OtpThrown(email, sent, error) ==
    [pc |-> "thrown", email |-> email, sent |-> sent, error |-> error,
     body |-> NoBody]

\* error.message || '...' of a request that did not end with an OK answer
OtpError(outcome) ==
    IF outcome = "rejected" THEN "data.message" ELSE "network"

\* signup() that creates the session from the email it was given
SignupAnswered_CreatesSession ==
    SessionRender(UserRec(ServerUserId, TRUE), TRUE, initialized, 1,
                  UserRec(ServerUserId, TRUE), Absent, ls_refresh_token, Absent)

\* signup() after `await authService.sendSignupOTP(...)`: nothing is stored
SignupAnswered == AuthUntouched

\* signup(userData) up to its await: the payload is stored first
Signup(email, url) ==
    /\ AuthUiReady
    /\ user = Absent
    /\ signupCall.pc # "await"
    /\ ops' = ops + 1
    /\ SessionRender(user, FALSE, initialized, ls_auth_token, ls_user,
                     ls_user_temp, ls_refresh_token, SignupData(email))
    /\ IF url = "built"
       THEN /\ signupCall' = OtpAwait(email)
            /\ loading' = TRUE
            /\ lastOp' = "SignupCall"
       ELSE /\ signupCall' = OtpThrown(email, 0, "ReferenceError")
            /\ loading' = FALSE
            /\ lastOp' = "SignupFailed"
    /\ UNCHANGED <<callVars, otpCall, verifyCall, redirect, trackVars, geoVars, envVars,
                   deletedIds, toggled, added>>

\* signup after the request settled
SignupDone(outcome) ==
    /\ signupCall.pc = "await"
    /\ signupCall' = IF outcome = "ok"
                     THEN [signupCall EXCEPT !.pc = "returned"]
                     ELSE OtpThrown(signupCall.email, 1, OtpError(outcome))
    /\ SignupAnswered
    /\ loading' = FALSE
    /\ lastOp' = IF outcome = "ok" THEN "SignupOk" ELSE "SignupFailed"
    /\ UNCHANGED <<callVars, otpCall, verifyCall, redirect, trackVars, geoVars, envVars,
                   ops, deletedIds, toggled, added>>

\* sendOTP(email) up to its await
SendOTP(email, url) ==
    /\ AuthUiReady
    /\ user = Absent
    /\ otpCall.pc # "await"
    /\ ops' = ops + 1
    /\ AuthUntouched
    /\ IF url = "built"
       THEN /\ otpCall' = OtpAwait(email)
            /\ loading' = TRUE
            /\ lastOp' = "SendOtpCall"
       ELSE /\ otpCall' = OtpThrown(email, 0, "ReferenceError")
            /\ loading' = FALSE
            /\ lastOp' = "SendOtpFailed"
    /\ UNCHANGED <<callVars, signupCall, verifyCall, redirect, trackVars, geoVars,
                   envVars, deletedIds, toggled, added>>

\* sendOTP after the request settled
SendOTPDone(outcome) ==
    /\ otpCall.pc = "await"
    /\ otpCall' = IF outcome = "ok"
                  THEN [otpCall EXCEPT !.pc = "returned"]
                  ELSE OtpThrown(otpCall.email, 1, OtpError(outcome))
    /\ AuthUntouched
    /\ loading' = FALSE
    /\ lastOp' = IF outcome = "ok" THEN "SendOtpOk" ELSE "SendOtpFailed"
    /\ UNCHANGED <<callVars, signupCall, verifyCall, redirect, trackVars, geoVars,
                   envVars, ops, deletedIds, toggled, added>>

\* toLowerCase() on the addresses of Emails
Lower(email) == IF email = "A@x.io" THEN "a@x.io" ELSE email

\* EmailDiffers that compares without regard to case
EmailDiffers_IgnoreCase(stored, email) == Lower(stored) # Lower(email)

\* signupData.email !== email
EmailDiffers(stored, email) == stored # email

\* the checks of verifyOTP before its request: the error thrown, "" for none
VerifyPrecheck(stored, email, url) ==
    IF stored = Absent THEN "Signup data not found"
    ELSE IF stored = Unparsable THEN "SyntaxError"
    ELSE IF EmailDiffers(stored.email, email) THEN "Email mismatch"
    ELSE IF url # "built" THEN "ReferenceError"
    ELSE ""

ValidationErrors == {"Signup data not found", "Email mismatch"}

\* verifyOTP(email, otp) up to its await
VerifyOTP(email, url) ==
    /\ AuthUiReady
    /\ verifyCall.pc # "await"
    /\ ops' = ops + 1
    /\ AuthUntouched
    /\ LET error == VerifyPrecheck(ls_signup_data, email, url)
       IN  IF error = ""
           THEN /\ verifyCall' = OtpAwait(email)
                /\ loading' = TRUE
                /\ lastOp' = "VerifyCall"
           ELSE /\ verifyCall' = OtpThrown(email, 0, error)
                /\ loading' = FALSE
                /\ lastOp' = IF error \in ValidationErrors
                             THEN "VerifyInvalid" ELSE "VerifyFailed"
    /\ UNCHANGED <<callVars, signupCall, otpCall, redirect, trackVars, geoVars, envVars,
                   deletedIds, toggled, added>>

\* verifyOTP after `await authService.signupWithOTP(...)`
VerifyOTPDone(outcome, body) ==
    /\ verifyCall.pc = "await"
    /\ IF outcome = "ok" /\ body.accessToken # 0 /\ body.user # 0
       THEN /\ verifyCall' = [verifyCall EXCEPT !.pc = "returned", !.body = body]
            /\ SessionRender(UserRec(body.user, TRUE), TRUE, initialized,
                             body.accessToken, UserRec(body.user, TRUE), Absent,
                             ls_refresh_token, Absent)
            /\ lastOp' = "VerifyOk"
       ELSE /\ verifyCall' =
                  OtpThrown(verifyCall.email, 1,
                            IF outcome = "ok" THEN "Invalid response format"
                            ELSE OtpError(outcome))
            /\ AuthUntouched
            /\ lastOp' = "VerifyFailed"
    /\ loading' = FALSE
    /\ UNCHANGED <<callVars, signupCall, otpCall, redirect, trackVars, geoVars, envVars,
                   ops, deletedIds, toggled, added>>

\* the page is loaded again: React state and pending requests are gone,
\* localStorage and the backend stay
PageLoad(op) ==
    /\ user' = Absent
    /\ initialized' = FALSE
    /\ refreshInterval' = FALSE
    /\ loading' = FALSE
    /\ mounted' = FALSE
    /\ routes' = <<>>
    /\ currentRoute' = Absent
    /\ routesLoaded' = FALSE
    /\ loadCall' = LoadIdle("none")
    /\ addCall' = Idle
    /\ toggleCall' = Idle
    /\ deleteCall' = DeleteIdle(NoId)
    /\ logoutCall' = Idle
    /\ validateCall' = Idle
    /\ signinCall' = FetchIdle
    /\ refreshCall' = FetchIdle
    /\ signupCall' = OtpIdle
    /\ otpCall' = OtpIdle
    /\ verifyCall' = OtpIdle
    /\ redirect' = FALSE
    /\ lastOp' = op
    /\ toggled' = NoToggle
    /\ added' = NoneAdded
    /\ UNCHANGED <<storageVars, envVars, deletedIds, trackVars, geoVars>>

\* the user reloads the page
Reload ==
    /\ AuthUiReady
    /\ ops' = ops + 1
    /\ PageLoad("Reload")

\* the navigation that `window.location.href = '/login'` started takes place
Redirected ==
    /\ redirect
    /\ PageLoad("Redirected")
    /\ UNCHANGED ops

Next ==
    \/ InitializeAuth
    \/ MountApp
    \/ \E outcome \in LoadOutcomes : LoadRoutesDone(outcome)
    \/ RefreshRoutes
    \/ \E coords \in SearchCoords, answer \in RouteAnswers : FindRoute(coords, answer)
    \/ AddRouteSaved
    \/ \E failure \in Failures : AddRouteFailed(failure)
    \/ \E row \in 1..ClickDepth : ToggleFavorite(row)
    \/ ToggleConfirmed
    \/ \E failure \in Failures : ToggleFailed(failure)
    \/ \E row \in 1..ClickDepth : DeleteRoute(row)
    \/ DeleteConfirmed
    \/ \E failure \in Failures : DeleteFailed(failure)
    \/ \E row \in 1..ClickDepth : SelectRoute(row)
    \/ \E outcome \in ValidateOutcomes : ValidateDone(outcome)
    \/ Login
    \/ \E event \in FetchEvents, body \in AuthBodies : LoginStep(event, body)
    \/ QuickLogin
    \/ Logout
    \/ \E outcome \in SignoutOutcomes : LogoutDone(outcome)
    \/ RefreshToken
    \/ \E event \in FetchEvents, body \in AuthBodies : RefreshStep(event, body)
    \/ \E email \in Emails, url \in UrlOutcomes : Signup(email, url)
    \/ \E outcome \in OtpOutcomes : SignupDone(outcome)
    \/ \E email \in Emails, url \in UrlOutcomes : SendOTP(email, url)
    \/ \E outcome \in OtpOutcomes : SendOTPDone(outcome)
    \/ \E email \in Emails, url \in UrlOutcomes : VerifyOTP(email, url)
    \/ \E outcome \in OtpOutcomes, body \in AuthBodies : VerifyOTPDone(outcome, body)
    \/ Reload
    \/ Redirected

Spec == Init /\ [][Next]_vars

\* initializeAuth is the mount effect of AuthProvider: React runs it after the
\* first commit and it has no await, so it is not postponed for ever
LiveSpec == Init /\ [][Next]_vars /\ WF_vars(InitializeAuth)

(***************************************************************************)
(* MapComponent: live tracking.  watchId is 0 for null and locationError   *)
(* is "" for null.  A registered watch is a record: its id and the watchId *)
(* that the handleStopLiveTracking captured by its error callback reads,   *)
(* which is the watchId of the render in which tracking was started.       *)
(* geocoding holds the watches with a success callback suspended at        *)
(* await reverseGeocode.  fixes, delivered, erroredSince and trackOp are   *)
(* history: the positions reported, the location updates delivered,        *)
(* whether a watch error was reported since the last start, the last step. *)
(***************************************************************************)
\* MapComponent is rendered by RouteFinder, behind ProtectedRoute
MapMounted == initialized /\ user # Absent

\* navigator.geolocation.clearWatch(id)
ClearWatch(watches, id) == {w \in watches : w.id # id}

\* setWatchId(next) followed by the cleanup of the effect on [watchId]: when
\* the state changes, the watch of the previous value is cleared
SetWatchId(watches, next) ==
    /\ watchId' = next
    /\ deviceWatches' = IF next # watchId /\ watchId # 0
                        THEN ClearWatch(watches, watchId) ELSE watches

\* the watchId a closure of handleStopLiveTracking reads: the one of its render
StaleWatchId(seen) == seen

\* handleStopLiveTracking as a closure that reads watchId = seen
StopLiveTracking(seen) ==
    /\ IF StaleWatchId(seen) # 0
       THEN SetWatchId(ClearWatch(deviceWatches, StaleWatchId(seen)), 0)
       ELSE UNCHANGED <<watchId, deviceWatches>>
    /\ isLiveTracking' = FALSE

\* the Start button (shown while !isLiveTracking): watchPosition registers a
\* watch whose callbacks belong to this render
HandleStartLiveTracking ==
    /\ MapMounted
    /\ ~isLiveTracking
    /\ nextWatchId <= MaxWatches
    /\ locationError' = ""
    /\ isLiveTracking' = TRUE
    /\ SetWatchId(deviceWatches \cup {[id |-> nextWatchId, seen |-> watchId]},
                  nextWatchId)
    /\ nextWatchId' = nextWatchId + 1
    /\ erroredSince' = FALSE
    /\ trackOp' = "Start"
    /\ UNCHANGED <<geocoding, fixes, delivered>>
    /\ UNCHANGED <<storageVars, authVars, appVars, callVars, otpVars, redirect,
                   envVars, histVars, geoVars>>

\* the Stop button (shown while isLiveTracking), of the current render
HandleStopLiveTracking ==
    /\ MapMounted
    /\ isLiveTracking
    /\ StopLiveTracking(watchId)
    /\ trackOp' = "Stop"
    /\ UNCHANGED <<locationError, geocoding, nextWatchId, fixes, delivered,
                   erroredSince>>
    /\ UNCHANGED <<storageVars, authVars, appVars, callVars, otpVars, redirect,
                   envVars, histVars, geoVars>>

\* the device reports a position to a registered watch: the success callback
\* runs up to await reverseGeocode
WatchPosition(w) ==
    /\ w \in deviceWatches
    /\ fixes < MaxFixes
    /\ fixes' = fixes + 1
    /\ geocoding' = geocoding \cup {w.id}
    /\ trackOp' = "Position"
    /\ UNCHANGED <<isLiveTracking, watchId, locationError, deviceWatches,
                   nextWatchId, delivered, erroredSince>>
    /\ UNCHANGED <<storageVars, authVars, appVars, callVars, otpVars, redirect,
                   envVars, histVars, geoVars>>

\* reverseGeocode returned (it never throws): setCurrentLocation and the
\* 'liveLocationUpdate' event
LocationUpdate(id) ==
    /\ id \in geocoding
    /\ geocoding' = geocoding \ {id}
    /\ delivered' = delivered + 1
    /\ trackOp' = "Update"
    /\ UNCHANGED <<isLiveTracking, watchId, locationError, deviceWatches,
                   nextWatchId, fixes, erroredSince>>
    /\ UNCHANGED <<storageVars, authVars, appVars, callVars, otpVars, redirect,
                   envVars, histVars, geoVars>>

\* the device reports an error to a registered watch: setLocationError, then
\* the handleStopLiveTracking of the render that started the watch
WatchError(w) ==
    /\ w \in deviceWatches
    /\ locationError' = "error"
    /\ StopLiveTracking(w.seen)
    /\ erroredSince' = TRUE
    /\ trackOp' = "WatchError"
    /\ UNCHANGED <<geocoding, nextWatchId, fixes, delivered>>
    /\ UNCHANGED <<storageVars, authVars, appVars, callVars, otpVars, redirect,
                   envVars, histVars, geoVars>>

TrackNext ==
    \/ InitializeAuth
    \/ HandleStartLiveTracking
    \/ HandleStopLiveTracking
    \/ \E w \in deviceWatches : WatchPosition(w)
    \/ \E id \in geocoding : LocationUpdate(id)
    \/ \E w \in deviceWatches : WatchError(w)

TrackingSpec == Init /\ [][TrackNext]_vars



(***************************************************************************)
(* useGeolocation: getCurrentLocation.  Latitudes and longitudes are       *)
(* integers in units of 0.00001 degree.  A decimal string of toFixed(4) is *)
(* a record: the sign it prints, the digits before and after the point.    *)
(***************************************************************************)
\* positions the device may report
GeoLats == {1234565, -5, 4}
GeoLngs == {7700004, -12345}

Abs(x) == IF x < 0 THEN 0 - x ELSE x
\* Number.prototype.toFixed(4): the nearest multiple of 0.0001, a tie going to
\* the larger magnitude; a negative number keeps its sign
ToFixed4(x) ==
    LET n == (Abs(x) + 5) \div 10
    IN  [neg |-> x < 0, whole |-> n \div 10000, frac |-> n % 10000]
\* `${latitude.toFixed(4)}, ${longitude.toFixed(4)}`
DecimalAddress(lat, lng) ==
    [kind |-> "decimal", lat |-> ToFixed4(lat), lng |-> ToFixed4(lng)]
\* features[0].place_name / display_name of a provider, when it is there
NamedAddress(provider) == [kind |-> "name", by |-> provider]
\* name || decimal string
AddressOr(named, provider, lat, lng) ==
    IF named THEN NamedAddress(provider) ELSE DecimalAddress(lat, lng)
GeolocationResult(lat, lng, address) ==
    [kind |-> "location", latitude |-> lat, longitude |-> lng, address |-> address]
NullResult == [kind |-> "null"]

\* the device: a position, or an error (denied, unavailable, timeout)
PositionOutcomes == {"position", "error"}
\* MapTiler: a feature with place_name, a feature without it, no feature, a
\* status that is not OK, an exception of fetch or of json()
PrimaryOutcomes == {"named", "nameless", "empty", "notOk", "exception"}
\* Nominatim: display_name, an OK body without it, a status that is not OK, an
\* exception
FallbackOutcomes == {"named", "nameless", "notOk", "exception"}

\* a chain whose first provider is not wrapped: its exception ends the call
ChainContinues_Unwrapped(outcome) == outcome \in {"empty", "notOk"}

\* the primary block ends without a return: no feature, not OK, or the
\* exception caught by its own catch
ChainContinues(outcome) == outcome \in {"empty", "notOk", "exception"}

\* the call returns: finally { setLoading(false) }
GeoReturn(call, result, error) ==
    /\ geoCall' = [call EXCEPT !.pc = "returned", !.result = result]
    /\ geoLoading' = FALSE
    /\ geoError' = error

OnlyGeo ==
    UNCHANGED <<storageVars, authVars, appVars, callVars, otpVars, redirect,
                trackVars, envVars, histVars>>

\* getCurrentLocation up to await getCurrentPosition; without
\* navigator.geolocation it throws into its own catch
GetCurrentLocation(supported) ==
    /\ geoCall.pc \in {"idle", "returned"}
    /\ IF supported
       THEN /\ geoCall' = [GeoIdle EXCEPT !.pc = "position"]
            /\ geoLoading' = TRUE
            /\ geoError' = ""
       ELSE GeoReturn(GeoIdle, NullResult, "not supported")
    /\ OnlyGeo

\* the device answers
PositionAnswer(outcome, lat, lng) ==
    /\ geoCall.pc = "position"
    /\ IF outcome = "position"
       THEN /\ geoCall' = [geoCall EXCEPT !.pc = "primary", !.lat = lat, !.lng = lng]
            /\ UNCHANGED <<geoLoading, geoError>>
       ELSE GeoReturn(geoCall, NullResult, "position error")
    /\ OnlyGeo

\* the primary provider answers
PrimaryAnswer(outcome) ==
    /\ geoCall.pc = "primary"
    /\ LET call == [geoCall EXCEPT !.primary = outcome]
       IN  IF outcome \in {"named", "nameless"}
           THEN GeoReturn(call,
                          GeolocationResult(call.lat, call.lng,
                              AddressOr(outcome = "named", "maptiler", call.lat, call.lng)),
                          geoError)
           ELSE IF ChainContinues(outcome)
           THEN /\ geoCall' = [call EXCEPT !.pc = "fallback"]
                /\ UNCHANGED <<geoLoading, geoError>>
           ELSE GeoReturn(call, NullResult, "provider error")
    /\ OnlyGeo

\* the fallback provider answers
FallbackAnswer(outcome) ==
    /\ geoCall.pc = "fallback"
    /\ LET call == [geoCall EXCEPT !.fallback = outcome]
       IN  GeoReturn(call,
                     GeolocationResult(call.lat, call.lng,
                         AddressOr(outcome = "named", "nominatim", call.lat, call.lng)),
                     geoError)
    /\ OnlyGeo

GeoNext ==
    \/ \E supported \in BOOLEAN : GetCurrentLocation(supported)
    \/ \E outcome \in PositionOutcomes, lat \in GeoLats, lng \in GeoLngs :
          PositionAnswer(outcome, lat, lng)
    \/ \E outcome \in PrimaryOutcomes : PrimaryAnswer(outcome)
    \/ \E outcome \in FallbackOutcomes : FallbackAnswer(outcome)

GeoSpec == Init /\ [][GeoNext]_vars


(***************************************************************************)
(* Properties.                                                             *)
(***************************************************************************)
Authenticated(u) == u # Absent /\ u.isAuthenticated
Guest(u) == u # Absent /\ ~u.isAuthenticated
NoneFrom(list, origin) == \A i \in 1..Len(list) : list[i].origin # origin

AddDoneOps == {"AddRouteLocal", "AddRouteSaved", "AddRouteFailed", "AddRouteDenied",
               "FindRouteDenied"}
RouteCallsIdle ==
    /\ loadCall.pc = "idle" /\ addCall.pc = "idle"
    /\ toggleCall.pc = "idle" /\ deleteCall.pc = "idle"

\* C1: route scopes never mix.  While the session is authenticated the list
\* in memory holds no record created in a guest session, and the persisted
\* authenticated-scope list never holds one; symmetrically, a guest session
\* shows no record of an authenticated session and the persisted guest-scope
\* list never holds one.
C1_ScopesNeverMix ==
    /\ Authenticated(user) => NoneFrom(routes, "guest")
    /\ NoneFrom(ls_user_routes, "guest")
    /\ Guest(user) => NoneFrom(routes, "auth")
    /\ NoneFrom(ls_local_routes, "auth")

\* C2: once deleteRoute(id) has completed, a loadRoutes() that takes its
\* records from the persisted cache does not bring id back: after a guest or
\* fallback load no deleted id is in the list, and after a merged load a
\* deleted id is in the list only if the fetched page holds it.
C2_DeletedStaysDeleted ==
    /\ lastOp \in {"LoadGuest", "LoadFallback", "LoadDenied"} =>
          \A i \in 1..Len(routes) : routes[i].id \notin deletedIds
    /\ lastOp = "LoadMerged" =>
          \A i \in 1..Len(routes) :
              routes[i].id \in deletedIds =>
                  HasId(Slice(serverRoutes, PageSize), routes[i].id)

\* C3: addRoute is idempotent on coordinates.  After two completed addRoute
\* calls with the same four coordinates, starting from a list without them,
\* the list holds exactly one record with these coordinates, and it is not a
\* favorite.
C3_AddRouteIdempotent ==
    \A c \in SearchCoords :
        added[c] = 2 =>
            /\ CountCoords(routes, c) = 1
            /\ \A i \in 1..Len(routes) :
                  routes[i].coords = c => ~routes[i].isFavorite

\* C4: a completing addRoute keeps the list within 50 records, and when it
\* inserts into a list of 50 it drops the last record and keeps the others in
\* their order behind the new one.
C4_CapKeptByAddRoute ==
    [][lastOp' \in AddDoneOps =>
          /\ Len(routes) <= KeepOnPrepend + 1 => Len(routes') <= KeepOnPrepend + 1
          /\ (Len(routes) = KeepOnPrepend + 1 /\ routes' # routes) =>
                /\ Len(routes') = KeepOnPrepend + 1
                /\ SubSeq(routes', 2, Len(routes')) = SubSeq(routes, 1, KeepOnPrepend)
                /\ routes[Len(routes)].id \notin Ids(routes')]_vars

\* C4 witness: an addRoute has completed on a full list of an earlier run and
\* the record before the dropped one is now the last.
C4_Witness ==
    /\ lastOp \in AddDoneOps
    /\ Len(routes) = KeepOnPrepend + 1
    /\ routes[1].id \notin Ids(GuestSeed(PageSize)) \cup Ids(AuthSeed(PageSize))
    /\ routes[Len(routes)] \in {GuestSeed(PageSize)[KeepOnPrepend],
                                AuthSeed(PageSize)[KeepOnPrepend]}

\* C5: two completed toggleFavorite(id) calls in a row, with no other route
\* operation between them, leave the favorite flag of the record as it was
\* before the first.
C5_DoubleToggleRestores ==
    toggled.n = 2 => FavoriteOf(routes, toggled.id) = toggled.before

\* C6: when the remote save succeeds, addRoute prepends the server-confirmed
\* record (the list keeps its first 49 records behind it) and the current
\* route is that record.
C6_SavedRouteIsCurrent ==
    [][lastOp' = "AddRouteSaved" =>
          /\ routes' = <<serverRoutes'[1]>> \o Slice(routes, KeepOnPrepend)
          /\ currentRoute' = routes'[1]]_vars

RefreshQuietOps == {"RefreshFailed", "RefreshSkipped", "RefreshRetry", "RefreshCall"}

\* C7: refreshToken changes the persisted token only to the accessToken of a
\* successful answer; when the call throws, times out or carries no
\* accessToken, the persisted token, the persisted user and the session in
\* memory stay as they are.
C7_RefreshFailureTouchesNothing ==
    [][/\ lastOp' \in RefreshQuietOps =>
              UNCHANGED <<ls_auth_token, ls_user, ls_user_temp, user>>
       /\ lastOp' = "RefreshOk" =>
              /\ refreshCall'.body.accessToken # 0
              /\ ls_auth_token' = refreshCall'.body.accessToken]_vars

\* C7 witness: a refresh has failed while a token and an authenticated
\* session exist.
C7_Witness ==
    /\ lastOp = "RefreshFailed"
    /\ ls_auth_token # 0
    /\ IsAuthenticatedUser(ls_user)
    /\ Authenticated(user)

\* C8: a 5xx answer to sign-in or refresh is retried with a linearly growing
\* delay, so a 5xx answer reaches the caller only as the answer to the third
\* request; no call sends more than three requests.
C8_ServerErrorRetried ==
    \A call \in {signinCall, refreshCall} :
        /\ call.sent <= maxRetries + 1
        /\ (call.pc = "returned" /\ call.status >= 500) =>
              /\ call.sent = maxRetries + 1
              /\ call.waited = ServerErrorBackoff * maxRetries

\* C9: once the routes are loaded and no route operation is in flight, the
\* persisted current route equals the current route in memory (absent exactly
\* when it is null).
C9_CurrentRoutePersisted ==
    (mounted /\ routesLoaded /\ RouteCallsIdle) => ls_current_route = currentRoute

\* C10: initializeAuth with a persisted token and a parsable user record
\* yields an authenticated session, and no answer of the background
\* validation changes the session.
C10_RehydratedStaysAuthenticated ==
    [][/\ (lastOp' = "InitializeAuth" /\ ~initialized
           /\ ls_auth_token # 0 /\ ls_user.kind = "user") =>
              Authenticated(user')
       /\ lastOp' \in ValidateOutcomes =>
              UNCHANGED <<user, ls_auth_token, ls_user>>]_vars

\* C10 witness: the validation was rejected and the rehydrated session is
\* still authenticated.
C10_Witness ==
    /\ lastOp \in {"ValidateRejected", "ValidateError"}
    /\ Authenticated(user)
    /\ ls_auth_token # 0

\* the step is a call of verifyOTP (not the continuation after its request)
VerifyCalled(op, before, after) ==
    after # before /\ op \in {"VerifyCall", "VerifyInvalid", "VerifyFailed"}

\* C11: verifyOTP(email, otp) called while no signup payload is stored, or
\* while the stored payload's email is not exactly the email argument, throws
\* one of the two validation errors, sends no request, and leaves the session,
\* the persisted token and the persisted user as they are.
C11_VerifyOTPValidates ==
    [][(/\ VerifyCalled(lastOp', ops, ops')
        /\ \/ ls_signup_data = Absent
           \/ /\ ls_signup_data.kind = "signup"
              /\ ls_signup_data.email # verifyCall'.email) =>
          /\ lastOp' = "VerifyInvalid"
          /\ verifyCall'.pc = "thrown"
          /\ verifyCall'.error \in ValidationErrors
          /\ verifyCall'.sent = 0
          /\ UNCHANGED <<callVars, signupCall, otpCall>>
          /\ UNCHANGED <<user, ls_auth_token, ls_user>>]_vars

\* C11 witness: verifyOTP was refused for an email that differs from the stored
\* one only in the case of a letter, while a session exists.
C11_Witness ==
    /\ lastOp = "VerifyInvalid"
    /\ ls_signup_data.kind = "signup"
    /\ verifyCall.error = "Email mismatch"
    /\ Lower(verifyCall.email) = Lower(ls_signup_data.email)
    /\ user # Absent

\* C12 as stated: when refreshRoutes() ends in its fallback (the fetch failed
\* or carried no content), the list equals the persisted authenticated-scope
\* list as it was when refreshRoutes was called.
C12_FallbackIsCacheAtCall ==
    [][(lastOp' = "LoadFallback" /\ loadCall.by = "refresh") =>
          routes' = loadCall.cache]_vars

\* C12 amended: the list equals the persisted authenticated-scope list as it
\* is when the fetch fails; an operation that completed during the fetch and
\* was persisted is part of it.
C12_FallbackIsCacheAtFailure ==
    [][(lastOp' = "LoadFallback" /\ loadCall.by = "refresh") =>
          routes' = ls_user_routes]_vars

\* C12 witness: refreshRoutes of an authenticated user with a token ended in
\* the fallback with a list that was persisted during the fetch.
C12_Witness ==
    /\ lastOp = "LoadFallback"
    /\ loadCall.by = "refresh"
    /\ UsesBackend(ls_user, ls_auth_token)
    /\ routes = ls_user_routes
    /\ \E i \in 1..Len(routes) : routes[i].id.num >= ClockIdBase

LogoutDoneOps == {"LogoutLocal"} \cup SignoutOutcomes

\* C13: when logout() has completed, the five persisted auth keys (auth_token,
\* refresh_token, mapguide_user, mapguide_user_temp, temp_signup_data) are
\* absent and the session is null, whether the signout request succeeded,
\* failed or was not sent.
C13_LogoutClearsEverything ==
    lastOp \in LogoutDoneOps =>
        /\ ls_auth_token = 0
        /\ ls_refresh_token = 0
        /\ ls_user = Absent
        /\ ls_user_temp = Absent
        /\ ls_signup_data = Absent
        /\ user = Absent

\* C13 witness: logout completed after a failed signout request.
C13_Witness ==
    /\ lastOp = "LogoutSignoutFailed"
    /\ user = Absent
    /\ ls_auth_token = 0
    /\ ls_refresh_token = 0

\* the step in which login() ends, and whether the backend's answer to it is
\* an OK response that carries a token and a user
LoginEnded(before, after) ==
    before.pc = "fetch" /\ after.pc \in {"returned", "thrown"}
LoginGranted(call) ==
    /\ call.pc = "returned" /\ ResponseOk(call.status)
    /\ call.body.accessToken # 0 /\ call.body.user # 0

SignupOps == {"SignupCall", "SignupOk", "SignupFailed"}
SignupFlowOps ==
    SignupOps \cup {"SendOtpCall", "SendOtpOk", "SendOtpFailed",
                    "VerifyCall", "VerifyInvalid", "VerifyFailed", "VerifyOk"}

\* C15: no step of signup() changes the session, the persisted token or the
\* persisted user, whether its OTP request succeeds or fails; within the
\* signup flow these change only in the step in which verifyOTP receives an
\* answer with a token and a user, which makes the session authenticated and
\* removes the temporary signup payload.
C15_SignupDefersAccount ==
    [][/\ lastOp' \in SignupOps => UNCHANGED <<user, ls_auth_token, ls_user>>
       /\ (lastOp' \in SignupFlowOps
           /\ <<user, ls_auth_token, ls_user>>' # <<user, ls_auth_token, ls_user>>) =>
              /\ lastOp' = "VerifyOk"
              /\ verifyCall'.body.accessToken # 0
              /\ verifyCall'.body.user # 0
              /\ user' = UserRec(verifyCall'.body.user, TRUE)
              /\ ls_auth_token' = verifyCall'.body.accessToken
              /\ ls_signup_data' = Absent]_vars

\* C15 witness: signup completed with its OTP request answered, and a later
\* verifyOTP created the session and removed the payload.
C15_Witness ==
    /\ lastOp = "VerifyOk"
    /\ signupCall.pc = "returned"
    /\ verifyCall.email = signupCall.email
    /\ Authenticated(user)
    /\ ls_signup_data = Absent

UniqueIds(list) == Cardinality(Ids(list)) = Len(list)

\* the cached records whose id the page does not hold, in cache order
NotOnPage(cache, page) ==
    LET missing(r) == r.id \notin Ids(page) IN SelectSeq(cache, missing)

\* C16: when the route fetch of an authenticated session succeeds, loadRoutes
\* yields the server records in server order followed by the records of the
\* persisted authenticated-scope list whose id is not among them, in cache
\* order; with unique ids in both inputs the result has unique ids.
C16_MergeOrder ==
    [][lastOp' = "LoadMerged" =>
          LET page == Transformed(Slice(serverRoutes, PageSize))
          IN  /\ routes' = page \o NotOnPage(ls_user_routes, page)
              /\ (UniqueIds(page) /\ UniqueIds(ls_user_routes)) =>
                    UniqueIds(routes')]_vars

\* C16 witness: a merged load put a server record first and kept, behind the
\* server records, a record that only the cache held.
C16_Witness ==
    /\ lastOp = "LoadMerged"
    /\ Len(routes) >= 2
    /\ HasId(serverRoutes, routes[1].id)
    /\ ~HasId(serverRoutes, routes[Len(routes)].id)
    /\ UniqueIds(routes)

DeleteDoneOps == {"DeleteLocal", "DeleteConfirmed", "DeleteFailed", "DeleteDenied"}
Without(list, id) == SelectSeq(list, LAMBDA route : route.id # id)

\* C17: deleteRoute(id) always removes id from the list in memory, whether
\* the remote delete was skipped, succeeded, failed or was answered 401; the
\* other records stay as they are and in their order; and if the current
\* route is the deleted one, the current route in memory and the persisted
\* current route are cleared.
C17_DeleteAlwaysRemoves ==
    [][lastOp' \in DeleteDoneOps =>
          LET id == deleteCall'.id IN
          /\ ~HasId(routes', id)
          /\ routes' = Without(routes, id)
          /\ (currentRoute # Absent /\ currentRoute.id = id) =>
                (currentRoute' = Absent /\ ls_current_route' = Absent)]_vars

\* C17 witness: the remote delete failed, the server still holds the record,
\* and the list in memory, which keeps other records, no longer holds it.
C17_Witness ==
    /\ lastOp \in {"DeleteFailed", "DeleteDenied"}
    /\ HasId(serverRoutes, deleteCall.id)
    /\ ~HasId(routes, deleteCall.id)
    /\ Len(routes) >= 1

DeniedOps == {"LoadDenied", "AddRouteDenied", "ToggleDenied", "DeleteDenied",
              "FindRouteDenied"}
FailedOps == {"LoadFallback", "AddRouteFailed", "ToggleFailed", "DeleteFailed"}
AwaitedCalls(load, add, toggle, delete) ==
    Cardinality({i \in 1..4 : <<load, add, toggle, delete>>[i].pc = "await"})

\* C18: when a request of the shared HTTP client is answered with 401, the
\* persisted token and the persisted user record are removed and a navigation
\* to /login is issued unless the page is the login page; the handling runs
\* for one request (exactly one pending call ends, or it is the request of
\* the route search); the rejection reaches the calling handler, which takes
\* its failure path (lists as after any other failed request); an answer
\* that fails otherwise leaves the credentials and the navigation alone.
C18_UnauthorizedClearsCredentials ==
    [][/\ lastOp' \in DeniedOps =>
              /\ ls_auth_token' = 0
              /\ ls_user' = Absent
              /\ redirect' = (redirect \/ user # Absent)
              /\ user' = user
              /\ IF lastOp' = "FindRouteDenied"
                 THEN UNCHANGED <<loadCall, toggleCall, deleteCall>>
                 ELSE AwaitedCalls(loadCall', addCall', toggleCall', deleteCall')
                          = AwaitedCalls(loadCall, addCall, toggleCall, deleteCall) - 1
              /\ lastOp' = "LoadDenied" => routes' = ls_user_routes
              /\ lastOp' = "DeleteDenied" => routes' = Without(routes, deleteCall.id)
              /\ lastOp' = "ToggleDenied" =>
                    \A i \in 1..Len(routes) :
                        routes'[i].isFavorite =
                            IF routes[i].id = toggleCall.id THEN ~routes[i].isFavorite
                            ELSE routes[i].isFavorite
       /\ lastOp' \in FailedOps => UNCHANGED <<ls_auth_token, ls_user, redirect>>]_vars

\* C18 witness: a 401 answer has removed the credentials of an authenticated
\* session, which is still in memory, and the navigation to /login is pending.
C18_Witness ==
    /\ lastOp \in DeniedOps
    /\ Authenticated(user)
    /\ ls_auth_token = 0 /\ ls_user = Absent
    /\ redirect

\* C19: a watch error during live tracking terminates it: the step that
\* handles the error leaves no device watch registered, the tracking flag
\* false and the error message recorded, and no location update is delivered
\* between that step and the next start of tracking.
C19_WatchErrorEndsTracking ==
    [][/\ trackOp' = "WatchError" =>
              /\ deviceWatches' = {}
              /\ ~isLiveTracking'
              /\ locationError' # ""
       /\ delivered' # delivered => ~erroredSince]_vars

\* the part of C19 the code keeps: the flag is false and the message recorded
C19_FlagAndMessage ==
    [][trackOp' = "WatchError" => (~isLiveTracking' /\ locationError' # "")]_vars

\* the watch is cleared when tracking was started with a watch id in the state
C19_ClearedWhenRestarted ==
    [][(trackOp' = "WatchError" /\ watchId # 0
        /\ \E w \in deviceWatches : w.id = watchId /\ w.seen # 0) =>
            deviceWatches' = {}]_vars

ThrewOps == {"AddRouteThrew", "ToggleThrew", "DeleteThrew"}

\* C20: absent or unparsable content of a persisted key is treated as empty
\* and no operation throws to its caller: no addRoute, toggleFavorite or
\* deleteRoute ends by throwing; a loadRoutes that met an unparsable user
\* record leaves the list that a load without a user record leaves (the
\* guest-scope list); after initializeAuth no unparsable guest record is left.
C20_ToleratesBadStorage ==
    /\ lastOp \notin ThrewOps
    /\ lastOp = "LoadThrew" => routes = ls_local_routes
    /\ initialized => ls_user_temp # Unparsable

\* the part of C20 that initializeAuth keeps: an unparsable record under
\* either key yields no session, and the guest record is removed
C20_InitializeTolerates ==
    [][(lastOp' = "InitializeAuth" /\ ~initialized) =>
          /\ ls_user_temp' # Unparsable
          /\ (ls_user = Unparsable /\ ls_auth_token # 0) =>
                (user' = Absent /\ ls_user' = Absent)
          /\ (ls_user_temp = Unparsable /\ ~(ls_user # Absent /\ ls_auth_token # 0)) =>
                user' = Absent]_vars

\* a toFixed(4) string of x: the sign of x, four digits after the point, at
\* most half a unit of the last digit away from x
IsDecimalOf(str, x) ==
    /\ str.neg = (x < 0)
    /\ str.frac \in 0..9999
    /\ Abs(10 * (str.whole * 10000 + str.frac) - Abs(x)) <= 5

C22_InitializeTerminates ==
    /\ [][lastOp' = "InitializeAuth" /\ ~initialized =>
             /\ initialized'
             /\ (ls_user # Absent /\ ls_user.kind = "user" /\ ls_auth_token # 0) =>
                    validateCall'.pc = "await"]_vars
    /\ (~initialized ~> initialized)

\* C22 witness: the page is initialized as a guest session while the
\* persisted user record and the signup payload hold text that does not parse.
C22_Witness ==
    /\ lastOp = "InitializeAuth"
    /\ initialized
    /\ Guest(user)
    /\ ls_user = Unparsable /\ ls_signup_data = Unparsable
    /\ validateCall.pc = "idle"

QuickLoginOps == {"QuickLogin", "QuickLoginOver"}

\* C23: after quickLogin the session is a guest session with a temporary
\* id, no token and no user record of an account are persisted, and the
\* guest record is persisted and equals the session, whatever was persisted
\* before.
C23_QuickLoginIsGuest ==
    lastOp \in QuickLoginOps =>
        /\ Guest(user)
        /\ user.id >= GuestIdBase
        /\ ls_auth_token = 0
        /\ ls_user = Absent
        /\ ls_user_temp = user
        /\ ~loading

\* C23 witness: quickLogin has run over a persisted token or user record.
C23_Witness ==
    /\ lastOp = "QuickLoginOver"
    /\ Guest(user)
    /\ ls_auth_token = 0 /\ ls_user = Absent
    /\ ls_user_temp = user

\* logout has completed: the page is up, no session, nothing persisted
LoggedOut ==
    /\ initialized
    /\ user = Absent
    /\ ls_auth_token = 0 /\ ls_user = Absent /\ ls_user_temp = Absent
SessionStartOps == {"LoginOk", "VerifyOk", "QuickLogin", "QuickLoginOver"}

\* C24: once logout has completed, the session stays anonymous and neither a
\* token nor an authenticated user record is persisted until a login, a
\* verifyOTP or a quickLogin succeeds, also when a refresh that was started
\* before the logout is answered after it.
C24_LogoutStaysAnonymous ==
    [][(LoggedOut /\ lastOp' \notin SessionStartOps) =>
          /\ user' = Absent
          /\ ls_auth_token' = 0
          /\ ~IsAuthenticatedUser(ls_user')]_vars

\* C25: in every reachable state the list in memory holds at most 50
\* records, also the list that loadRoutes merges from the fetched page and the
\* persisted authenticated-scope records.
C25_ListWithinCap == Len(routes) <= KeepOnPrepend + 1

LocalAddOps == {"AddRouteLocal", "AddRouteFailed", "AddRouteDenied", "FindRouteDenied"}
\* the step is the end of an addRoute on its local path that found the
\* coordinates in the list: the updater returned the list it was given
LocalAddFoundDuplicate(op, opsBefore, opsAfter, call, before, after) ==
    /\ op \in LocalAddOps
    /\ (opsAfter # opsBefore \/ call.pc = "await")
    /\ before # <<>>
    /\ after = before

\* C26: when addRoute on its local path (guest session, or remote save
\* failed) finds the four coordinates in the list, the list stays as it is
\* and the current route stays exactly as it was before the call.
C26_DuplicateKeepsCurrent ==
    [][LocalAddFoundDuplicate(lastOp', ops, ops', addCall, routes, routes') =>
          currentRoute' = currentRoute]_vars

\* ids the backend has issued
ConfirmedByBackend(id) == id.prefix = "" /\ id.num < serverNextId

\* C27: a record that enters the list through the local path of addRoute
\* carries an id with the 'local_' prefix, and toggleFavorite and deleteRoute
\* send a backend request only for an id the backend has issued.
C27_LocalRecordsStayLocal ==
    [][/\ (lastOp' \in LocalAddOps /\ routes' # routes /\ routes' # <<>>) =>
              StartsWithLocal(routes'[1].id)
       /\ (toggleCall.pc = "idle" /\ toggleCall'.pc = "await") =>
              ConfirmedByBackend(toggleCall'.id)
       /\ (deleteCall.pc = "idle" /\ deleteCall'.pc = "await") =>
              ConfirmedByBackend(deleteCall'.id)]_vars

\* the step ends a pending call for record id, and the step before it
\* selected a record of another id as the current route
EndsAfterSelect(call, after, op) ==
    /\ call.pc = "await" /\ after.pc = "idle"
    /\ op = "SelectRoute"
    /\ call.later # Absent /\ call.later.id # call.id

\* C28: toggleFavorite(id) and deleteRoute(id) touch only the record id: when
\* a record of another id was made the current route while the backend call
\* was in flight, that record is the current route after the call completes,
\* with the favorite flag it had.
C28_OnlyTheRecordIsTouched ==
    [][/\ EndsAfterSelect(toggleCall, toggleCall', lastOp) =>
              currentRoute' = toggleCall.later
       /\ EndsAfterSelect(deleteCall, deleteCall', lastOp) =>
              currentRoute' = deleteCall.later]_vars

\* C29: after initialization, an authenticated session in memory has a token
\* and an authenticated user record persisted, so the scope the route cache
\* reads from the store is the scope of the session.
C29_SessionMatchesStore ==
    (initialized /\ Authenticated(user)) =>
        (ls_auth_token # 0 /\ IsAuthenticatedUser(ls_user))

\* C30: the reset step of the route finder runs only on mount and when the
\* user id changes: a record that handleSelectRoute or a completing addRoute
\* makes the current route is the current route after that step (the user id
\* has not changed), and a selected record is persisted as the current route.
C30_CurrentRouteStays ==
    [][/\ (lastOp' = "SelectRoute" /\ ops' # ops) =>
              /\ currentRoute' # Absent
              /\ HasId(routes, currentRoute'.id)
              /\ ls_current_route' = currentRoute'
       /\ (lastOp' \in AddDoneOps /\ UserIdOf(user') = UserIdOf(user)
           /\ (ops' # ops \/ addCall.pc = "await")) =>
              currentRoute' # Absent]_vars


=============================================================================
